---- MODULE Spec2Model ----
(***************************************************************************)
(* Model of linkedinbotv2.py: one run of the Streamlit script, from the    *)
(* widgets of the "Find People" tab through the Search button handler to   *)
(* the "Search Results" tab (profile fetch and partition, the Hunter       *)
(* resolver loop, the CSV export), and the pure function infer_domain.     *)
(*                                                                         *)
(* Python strings whose characters the code looks at (names, company      *)
(* names, domains) are sequences of one-character strings.  Strings the    *)
(* code only tests for emptiness or passes on (emails, the API key, the    *)
(* headline, the location) are TLA+ strings.  A Python dict is a function  *)
(* whose DOMAIN holds the keys that are present.                           *)
(***************************************************************************)
EXTENDS Integers, Sequences, FiniteSets, TLC

VARIABLES
    pc,                     \* position of the script run
    hunter_api_key,         \* line 86
    api,                    \* line 101: bound only once Linkedin() returned
    results,                \* line 68 / line 111
    st_out,                 \* the st.success/error/warning/info calls, in order
    profiles,               \* the profile dicts built by get_profile_details, by identity
    profiles_with_email,    \* line 120: list of references into profiles
    profiles_without_email, \* line 121: list of references into profiles
    cur,                    \* position of the line-146 loop in its list
    company_name,           \* argument of infer_domain
    domains,                \* line 162
    di,                     \* position of the line-164 loop in domains
    email_found,            \* line 163
    probed,                 \* the requests sent to HUNTER_API_URL for the current profile
    exported                \* line 177: the calls of export_data_to_csv, each its argument

vars == <<pc, hunter_api_key, api, results, st_out, profiles, profiles_with_email,
          profiles_without_email, cur, company_name, domains, di, email_found,
          probed, exported>>

\* ------------------------------------------------------------------ bounds

\* Longest search result list the Search handler returns in the model.
MaxResults == 3

\* Longest enumerated company name handed to infer_domain in SpecInfer.
MaxLen == 3

\* ------------------------------------------------------------ Python values

\* Python's None.
None == "<None>"

\* A name that is not bound (api before line 101 ran).
Unbound == "<unbound>"

\* Truth value of an optional string: None and "" are falsy.
Truthy(v) == v # None /\ v # ""

\* dict.get(key, default)
Get(d, key, default) == IF key \in DOMAIN d THEN d[key] ELSE default

\* ----------------------------------------------------------------- strings

UpperSeq == <<"A","B","C","D","E","F","G","H","I","J","K","L","M",
              "N","O","P","Q","R","S","T","U","V","W","X","Y","Z">>
LowerSeq == <<"a","b","c","d","e","f","g","h","i","j","k","l","m",
              "n","o","p","q","r","s","t","u","v","w","x","y","z">>
DigitSeq == <<"0","1","2","3","4","5","6","7","8","9">>

Range(s) == { s[i] : i \in DOMAIN s }

\* The character class [a-zA-Z0-9] of line 44.
IsAsciiAlnum(c) == c \in Range(UpperSeq) \cup Range(LowerSeq) \cup Range(DigitSeq)

\* str.lower() on one character (the non-ASCII letter of the model included).
LowerChar(c) ==
    IF c \in Range(UpperSeq)
    THEN LowerSeq[CHOOSE i \in DOMAIN UpperSeq : UpperSeq[i] = c]
    ELSE IF c = "É" THEN "é" ELSE c

\* str.lower()
Lower(s) == [i \in DOMAIN s |-> LowerChar(s[i])]

\* re.sub(r"[^a-zA-Z0-9]", "", s)
RECURSIVE SubNonAlnum(_)
SubNonAlnum(s) ==
    IF s = <<>> THEN <<>>
    ELSE IF IsAsciiAlnum(Head(s)) THEN <<Head(s)>> \o SubNonAlnum(Tail(s))
    ELSE SubNonAlnum(Tail(s))

IsSpace(c) == c = " "

RECURSIVE LStrip(_)
LStrip(s) == IF s # <<>> /\ IsSpace(Head(s)) THEN LStrip(Tail(s)) ELSE s

RECURSIVE RStrip(_)
RStrip(s) ==
    IF s # <<>> /\ IsSpace(s[Len(s)]) THEN RStrip(SubSeq(s, 1, Len(s) - 1)) ELSE s

\* str.strip()
Strip(s) == RStrip(LStrip(s))

\* str.split(): the maximal runs of non-whitespace characters, in order.
RECURSIVE SplitFrom(_, _)
SplitFrom(s, word) ==
    IF s = <<>> THEN (IF word = <<>> THEN <<>> ELSE <<word>>)
    ELSE IF IsSpace(Head(s))
         THEN (IF word = <<>> THEN <<>> ELSE <<word>>) \o SplitFrom(Tail(s), <<>>)
         ELSE SplitFrom(Tail(s), Append(word, Head(s)))

Split(s) == SplitFrom(s, <<>>)

\* ------------------------------------------------------------- infer_domain

\* The suffix list of line 46, in its order.
Extensions ==
    << <<".","c","o","m">>, <<".","c","a">>, <<".","o","r","g">>,
       <<".","e","d","u">>, <<".","n","e","t">>, <<".","c","o">> >>

\* The fallback of line 47.
GmailDomain == <<"g","m","a","i","l",".","c","o","m">>

\* Line 44 without the lowercasing.
CleanNameKeepCase(name) == SubNonAlnum(name)

\* Line 44.
CleanName(name) == Lower(SubNonAlnum(name))

\* Lines 45-47 without the fallback domain.
InferDomainNoFallback(name) ==
    [i \in DOMAIN Extensions |-> CleanName(name) \o Extensions[i]]

\* Lines 42-47.
infer_domain(name) ==
    [i \in DOMAIN Extensions |-> CleanName(name) \o Extensions[i]] \o <<GmailDomain>>

\* ------------------------------------------------------ get_profile_details

Ann == <<"A","n","n">>
Lee == <<"L","e","e">>
Bo == <<"B","o">>
AcmeInc == <<"A","c","m","e",","," ","I","n","c",".">>
NA == <<"N","/","A">>

\* Records api.get_profile may return: each field of lines 53-57 present in
\* some and absent in others, the experience list absent, empty, and with a
\* first entry that has no companyName, the email absent, empty and set.
RawProfiles ==
    { [firstName |-> Ann, lastName |-> Lee, headline |-> "Engineer",
       locationName |-> "Toronto",
       experience |-> << [companyName |-> AcmeInc, title |-> "Engineer"] >>,
       email |-> "ann@acme.com"],
      [firstName |-> Bo, email |-> "bo@mail.org"],
      [firstName |-> Ann, lastName |-> Lee, headline |-> "Engineer",
       locationName |-> "Toronto",
       experience |-> << [companyName |-> AcmeInc, title |-> "Engineer"] >>],
      [lastName |-> Lee, locationName |-> "Toronto",
       experience |-> << [title |-> "Founder"] >>, email |-> ""],
      <<>>,
      [firstName |-> Bo, lastName |-> Lee, headline |-> "Analyst",
       experience |-> <<>>] }

\* Line 56: indexing [0] of an empty experience list raises IndexError.
get_profile_details_raises(profile) ==
    Get(profile, "experience", << <<>> >>) = <<>>

\* Lines 52-58.
get_profile_details(profile) ==
    [name |-> Strip(Get(profile, "firstName", <<>>) \o <<" ">>
                    \o Get(profile, "lastName", <<>>)),
     headline |-> Get(profile, "headline", "N/A"),
     location |-> Get(profile, "locationName", "N/A"),
     company |-> Get(Get(profile, "experience", << <<>> >>)[1], "companyName", NA),
     email |-> Get(profile, "email", None)]

\* ------------------------------------------------- search_email_with_hunter

\* The outcomes of requests.get at line 36: a response, or an exception.
HunterResponses ==
    { [status_code |-> 200, json |-> [data |-> [email |-> "found@acme.com", score |-> 90]]],
      [status_code |-> 200, json |-> [data |-> [email |-> None, score |-> 0]]],
      [status_code |-> 200, json |-> [data |-> <<>>]],
      [status_code |-> 200, json |-> <<>>],
      [status_code |-> 404, json |-> <<>>],
      [status_code |-> 429, json |-> <<>>],
      [raises |-> "ConnectionError"] }

\* requests.get raised instead of returning a response.
RequestRaises(response) == "raises" \in DOMAIN response

\* What the probe log records when the request raised.
Raised == "<raised>"

\* Lines 37-40: the pair (email, score).
search_email_with_hunter(response) ==
    IF response.status_code = 200
    THEN LET data == Get(response.json, "data", <<>>)
         IN  <<Get(data, "email", None), Get(data, "score", 0)>>
    ELSE <<None, None>>

\* ------------------------------------------------------------- the script

\* Line 111 assigns results only when nothing before it in the try block raised.
TryResultBeforeUrns(fail, found) == IF fail \in {"none", "urns"} THEN found ELSE results

\* Lines 100-114: the value of results after the try statement.
TryResult(fail, found) == IF fail = "none" THEN found ELSE results

\* Line 127 testing only for None.
HasEmailNotNone(profile) == profile.email # None

\* Line 127.
HasEmail(profile) == Truthy(profile.email)

\* Line 160 without the test.
HunterAlways == TRUE

\* Line 160.
HunterEnabled == Truthy(hunter_api_key)

\* The loop of line 146 running over both lists.
ResolverTargetsAll == profiles_with_email \o profiles_without_email

\* Line 146: the list the resolver loop runs over.
ResolverTargets == profiles_without_email

\* Lines 168-172 without the break.
NoBreak(email) == FALSE

\* Lines 168-172: the loop over domains is left when the email is truthy.
LoopBreaks(email) == Truthy(email)

\* Line 177 with the lists swapped.
ExportOrderSwapped == profiles_without_email \o profiles_with_email

\* Line 177: the concatenation handed to export_data_to_csv.
ExportOrder == profiles_with_email \o profiles_without_email

Init ==
    /\ pc = "tab2"
    /\ hunter_api_key = ""
    /\ api = Unbound
    /\ results = <<>>
    /\ st_out = <<>>
    /\ profiles = <<>>
    /\ profiles_with_email = <<>>
    /\ profiles_without_email = <<>>
    /\ cur = 0
    /\ company_name = <<>>
    /\ domains = <<>>
    /\ di = 0
    /\ email_found = FALSE
    /\ probed = <<>>
    /\ exported = <<>>

\* Lines 84-97: the widgets return what the user typed.
TextInputs ==
    /\ pc = "tab2"
    /\ \E key \in {"", "hunter-key"} : hunter_api_key' = key
    /\ pc' = "button"
    /\ UNCHANGED <<api, results, st_out, profiles, profiles_with_email,
                   profiles_without_email, cur, company_name, domains, di,
                   email_found, probed, exported>>

\* Line 99: st.button returns False, the handler is skipped.
NoClick ==
    /\ pc = "button"
    /\ pc' = "tab3"
    /\ UNCHANGED <<hunter_api_key, api, results, st_out, profiles, profiles_with_email,
                   profiles_without_email, cur, company_name, domains, di,
                   email_found, probed, exported>>

\* Lines 99-114: the Search handler.  fail names the call of the try block
\* that raises (Linkedin(), fetch_country_urns, api.search_people), or none.
SearchClick ==
    /\ pc = "button"
    /\ \E fail \in {"none", "login", "urns", "search"}, n \in 0..MaxResults :
         /\ api' = IF fail = "login" THEN Unbound ELSE "Linkedin"
         /\ results' = TryResult(fail, [k \in 1..n |-> [urn_id |-> k]])
         /\ st_out' = Append(st_out, IF fail = "none" THEN "success" ELSE "error")
    /\ pc' = "tab3"
    /\ UNCHANGED <<hunter_api_key, profiles, profiles_with_email,
                   profiles_without_email, cur, company_name, domains, di,
                   email_found, probed, exported>>

\* Lines 119-121 and 184-185.
Tab3Start ==
    /\ pc = "tab3"
    /\ IF results # <<>>
       THEN /\ profiles_with_email' = <<>>
            /\ profiles_without_email' = <<>>
            /\ pc' = "fetch"
            /\ UNCHANGED st_out
       ELSE /\ st_out' = Append(st_out, "info")
            /\ pc' = "done"
            /\ UNCHANGED <<profiles_with_email, profiles_without_email>>
    /\ UNCHANGED <<hunter_api_key, api, results, profiles, cur, company_name,
                   domains, di, email_found, probed, exported>>

\* Lines 123-130: one iteration of the fetch loop; after the last one the
\* script goes on to line 146.
FetchProfile ==
    /\ pc = "fetch"
    /\ \E record \in RawProfiles :
         LET person == results[Len(profiles) + 1]
             k == Len(profiles) + 1
         IN  IF get_profile_details_raises(record)
             THEN /\ pc' = "raised"
                  /\ UNCHANGED <<profiles, profiles_with_email,
                                 profiles_without_email, cur>>
             ELSE /\ profiles' = Append(profiles, get_profile_details(record))
                  /\ IF HasEmail(get_profile_details(record))
                     THEN /\ profiles_with_email' = Append(profiles_with_email, k)
                          /\ UNCHANGED profiles_without_email
                     ELSE /\ profiles_without_email' = Append(profiles_without_email, k)
                          /\ UNCHANGED profiles_with_email
                  /\ IF k = Len(results)
                     THEN pc' = "resolve" /\ cur' = 1
                     ELSE pc' = "fetch" /\ UNCHANGED cur
    /\ UNCHANGED <<hunter_api_key, api, results, st_out, company_name, domains, di,
                   email_found, probed, exported>>

\* Lines 146-160 with an empty API key: nothing is done for this profile.
ResolveSkip ==
    /\ pc = "resolve"
    /\ cur <= Len(ResolverTargets)
    /\ ~HunterEnabled
    /\ cur' = cur + 1
    /\ UNCHANGED <<pc, hunter_api_key, api, results, st_out, profiles,
                   profiles_with_email, profiles_without_email, company_name,
                   domains, di, email_found, probed, exported>>

\* Lines 146-163: the resolver starts on the next profile of its list.
ResolveBegin ==
    /\ pc = "resolve"
    /\ cur <= Len(ResolverTargets)
    /\ HunterEnabled
    /\ company_name' = profiles[ResolverTargets[cur]].company
    /\ domains' = infer_domain(profiles[ResolverTargets[cur]].company)
    /\ email_found' = FALSE
    /\ di' = 1
    /\ probed' = <<>>
    /\ pc' = IF infer_domain(profiles[ResolverTargets[cur]].company) = <<>>
             THEN "after_loop" ELSE "probe"
    /\ UNCHANGED <<hunter_api_key, api, results, st_out, profiles,
                   profiles_with_email, profiles_without_email, cur, exported>>

\* Lines 164-172: one iteration of the loop over domains.
Probe ==
    /\ pc = "probe"
    /\ LET ref == ResolverTargets[cur]
           words == Split(profiles[ref].name)
       IN  IF words = <<>>
           THEN \* line 166: [0] of an empty list raises IndexError
                /\ pc' = "raised"
                /\ UNCHANGED <<profiles, st_out, di, email_found, probed>>
           ELSE \E response \in HunterResponses :
                  LET request == [profile |-> ref, domain |-> domains[di],
                                  first_name |-> words[1],
                                  last_name |-> words[Len(words)]]
                  IN  IF RequestRaises(response)
                      THEN /\ probed' = Append(probed, <<request, Raised>>)
                           /\ pc' = "raised"
                           /\ UNCHANGED <<profiles, st_out, di, email_found>>
                      ELSE LET email == search_email_with_hunter(response)[1]
                           IN  /\ probed' = Append(probed, <<request, email>>)
                               /\ IF Truthy(email)
                                  THEN /\ st_out' = Append(st_out, "found")
                                       /\ profiles' = [profiles EXCEPT ![ref].email = email]
                                       /\ email_found' = TRUE
                                  ELSE UNCHANGED <<st_out, profiles, email_found>>
                               /\ IF LoopBreaks(email)
                                  THEN pc' = "after_loop" /\ UNCHANGED di
                                  ELSE /\ di' = di + 1
                                       /\ pc' = IF di = Len(domains)
                                                THEN "after_loop" ELSE "probe"
    /\ UNCHANGED <<hunter_api_key, api, results, profiles_with_email,
                   profiles_without_email, cur, company_name, domains, exported>>

\* Lines 173-174, then back to line 146 for the next profile.
AfterLoop ==
    /\ pc = "after_loop"
    /\ st_out' = IF email_found THEN st_out ELSE Append(st_out, "warning")
    /\ cur' = cur + 1
    /\ pc' = "resolve"
    /\ UNCHANGED <<hunter_api_key, api, results, profiles, profiles_with_email,
                   profiles_without_email, company_name, domains, di, email_found,
                   probed, exported>>

\* Lines 176-177, once the loop of line 146 is exhausted.
Export ==
    /\ pc = "resolve"
    /\ cur > Len(ResolverTargets)
    /\ exported' = IF profiles_with_email # <<>> \/ profiles_without_email # <<>>
                   THEN Append(exported,
                               [k \in DOMAIN ExportOrder |-> profiles[ExportOrder[k]]])
                   ELSE exported
    /\ pc' = "done"
    /\ UNCHANGED <<hunter_api_key, api, results, st_out, profiles,
                   profiles_with_email, profiles_without_email, cur, company_name,
                   domains, di, email_found, probed>>

Next ==
    \/ TextInputs
    \/ NoClick
    \/ SearchClick
    \/ Tab3Start
    \/ FetchProfile
    \/ ResolveSkip
    \/ ResolveBegin
    \/ Probe
    \/ AfterLoop
    \/ Export

Spec == Init /\ [][Next]_vars

\* ------------------------------------------- infer_domain on its own inputs

\* Characters of the enumerated company names: an upper-case and a lower-case
\* ASCII letter, a digit, the underscore, a space and a non-ASCII letter.
InferAlphabet == {"A", "b", "7", "_", " ", "É"}

\* Every string over InferAlphabet of length at most MaxLen (the empty string
\* included), the sentinel of line 56 and a name with punctuation.
CompanyNames ==
    UNION { [1..n -> InferAlphabet] : n \in 0..MaxLen } \cup {NA, AcmeInc}

InitInfer ==
    /\ pc = "infer_domain"
    /\ company_name \in CompanyNames
    /\ hunter_api_key = ""
    /\ api = Unbound
    /\ results = <<>>
    /\ st_out = <<>>
    /\ profiles = <<>>
    /\ profiles_with_email = <<>>
    /\ profiles_without_email = <<>>
    /\ cur = 0
    /\ domains = <<>>
    /\ di = 0
    /\ email_found = FALSE
    /\ probed = <<>>
    /\ exported = <<>>

\* Lines 42-47: a call of infer_domain(company_name).
InferDomainCall ==
    /\ pc = "infer_domain"
    /\ domains' = infer_domain(company_name)
    /\ pc' = "infer_return"
    /\ UNCHANGED <<hunter_api_key, api, results, st_out, profiles, profiles_with_email,
                   profiles_without_email, cur, company_name, di, email_found,
                   probed, exported>>

NextInfer == InferDomainCall

SpecInfer == InitInfer /\ [][NextInfer]_vars

\* ------------------------------------------------------------------ claims

\* A value returned by a probe that is a found address.
IsAddress(v) == v # None /\ v # "" /\ v # Raised

Last(s) == s[Len(s)]

\* The profile the probes of the log were made for.
ProbedRef == probed[1][1].profile

\* C1: the probes made for a profile go to the candidates of
\* infer_domain(company) in that order, one per candidate; only the last
\* probe of the log can have returned an address, and then that address is
\* the profile's email and the loop over the candidates has been left; the
\* loop is left only at the first address or after the last candidate.
C1_ProbesInOrderStopAtFirstHit ==
    probed # <<>> =>
        LET candidates == infer_domain(profiles[ProbedRef].company)
        IN  /\ Len(probed) <= Len(candidates)
            /\ \A k \in DOMAIN probed :
                 /\ probed[k][1].profile = ProbedRef
                 /\ probed[k][1].domain = candidates[k]
                 /\ k < Len(probed) => ~IsAddress(probed[k][2])
            /\ ProbedRef \in Range(profiles_without_email)
            /\ IsAddress(Last(probed)[2]) =>
                 /\ profiles[ProbedRef].email = Last(probed)[2]
                 /\ pc \notin {"probe", "raised"}
            /\ pc = "after_loop" =>
                 \/ IsAddress(Last(probed)[2])
                 \/ Len(probed) = Len(candidates)

\* C1 witness: success on the 3rd candidate after two failures, candidates
\* 4-7 not probed, the loop left.
C1_Witness ==
    /\ pc = "after_loop"
    /\ Len(probed) = 3
    /\ probed[1][2] = None /\ probed[2][2] = None
    /\ IsAddress(probed[3][2])
    /\ profiles[ProbedRef].email = probed[3][2]

\* C2: when the loop over the candidates is over and every probe of the
\* profile returned no address, exactly 7 probes were made, one per
\* candidate position, the profile still has no email and is in the
\* missing-email list, nothing raised, and the outcome is the
\* "No email found" warning.
C2_ExhaustedUnresolved ==
    (/\ probed # <<>>
     /\ pc # "probe"
     /\ \A k \in DOMAIN probed : probed[k][2] = None)
    => /\ Len(probed) = 7
       /\ \A k \in 1..7 : probed[k][1].domain = domains[k]
       /\ ~Truthy(profiles[ProbedRef].email)
       /\ ProbedRef \in Range(profiles_without_email)
       /\ ProbedRef \notin Range(profiles_with_email)
       /\ pc # "raised"
       /\ ~email_found
       /\ pc # "after_loop" => Last(st_out) = "warning"

\* C2 witness: seven probes, all without an address, and the run exported.
C2_Witness ==
    /\ pc = "done"
    /\ Len(probed) = 7
    /\ \A k \in DOMAIN probed : probed[k][2] = None
    /\ exported # <<>>
    /\ \E k \in DOMAIN exported[1] : ~Truthy(exported[1][k].email)

\* The characters of s the regular expression of line 44 keeps.
KeptPositions(s) == { p \in DOMAIN s : IsAsciiAlnum(s[p]) }

\* C3: infer_domain returns 7 candidates; candidate i of the first six is a
\* prefix followed by the i-th of .com .ca .org .edu .net .co; the prefix is
\* the ASCII letters and digits of the company name, in their order,
\* lowercased, and nothing else; the 7th candidate is gmail.com.
C3_InferDomainCandidates ==
    pc = "infer_return" =>
        /\ Len(domains) = 7
        /\ domains[7] = <<"g","m","a","i","l",".","c","o","m">>
        /\ \A i \in 1..6 :
             LET ext == << <<".","c","o","m">>, <<".","c","a">>, <<".","o","r","g">>,
                           <<".","e","d","u">>, <<".","n","e","t">>, <<".","c","o">> >>[i]
                 plen == Len(domains[i]) - Len(ext)
                 prefix == SubSeq(domains[i], 1, plen)
                 kept == KeptPositions(company_name)
             IN  /\ plen = Cardinality(kept)
                 /\ SubSeq(domains[i], plen + 1, Len(domains[i])) = ext
                 /\ \A k \in 1..plen :
                      prefix[k] \in Range(LowerSeq) \cup Range(DigitSeq)
                 /\ \A p \in kept :
                      LET k == Cardinality({ q \in kept : q <= p })
                          c == company_name[p]
                      IN  IF \E j \in DOMAIN UpperSeq : UpperSeq[j] = c
                          THEN \E j \in DOMAIN UpperSeq :
                                 UpperSeq[j] = c /\ prefix[k] = LowerSeq[j]
                          ELSE prefix[k] = c

\* C3 witness: "Acme, Inc." gives first candidate "acmeinc.com".
C3_Witness ==
    /\ pc = "infer_return"
    /\ company_name = <<"A","c","m","e",","," ","I","n","c",".">>
    /\ domains[1] = <<"a","c","m","e","i","n","c",".","c","o","m">>

StrictlyIncreasing(s) == \A a, b \in DOMAIN s : a < b => s[a] < s[b]

\* C4: each of the two lists holds its profiles in search-result order,
\* every fetched profile is in exactly one of them, and the list handed to
\* export is the has-email list followed by the missing-email list.
C4_PartitionStable ==
    /\ StrictlyIncreasing(profiles_with_email)
    /\ StrictlyIncreasing(profiles_without_email)
    /\ Range(profiles_with_email) \cap Range(profiles_without_email) = {}
    /\ Range(profiles_with_email) \cup Range(profiles_without_email) = DOMAIN profiles
    /\ exported # <<>> =>
         /\ Len(exported[1]) = Len(profiles)
         /\ \A k \in DOMAIN profiles_with_email :
              exported[1][k] = profiles[profiles_with_email[k]]
         /\ \A k \in DOMAIN profiles_without_email :
              exported[1][Len(profiles_with_email) + k] = profiles[profiles_without_email[k]]

\* C4 witness: [A(has email), B(no email), C(has email)] exported as [A, C, B].
C4_Witness ==
    /\ exported # <<>>
    /\ Len(profiles) = 3
    /\ Truthy(profiles[1].email) /\ ~Truthy(profiles[2].email) /\ Truthy(profiles[3].email)
    /\ profiles[1] # profiles[3]
    /\ exported[1] = <<profiles[1], profiles[3], profiles[2]>>

\* C5 as stated: in the list handed to export, every profile that carries an
\* email at export time precedes every profile that carries none.
C5_ExportedEmailsFirst ==
    exported # <<>> =>
        \A a, b \in DOMAIN exported[1] :
            (a < b /\ Truthy(exported[1][b].email)) => Truthy(exported[1][a].email)

\* C5 amended: the split is taken when a profile is fetched, on the email
\* the fetch returned, and is never revised: a fetched profile joins the
\* has-email list exactly when its fetched email is non-empty, no later
\* step moves a profile, and the exported list is the has-email list
\* followed by the missing-email list, so a profile whose email the
\* resolver found stays among the profiles fetched without one.
C5_SplitOnFetchedEmail ==
    /\ [][ /\ Len(profiles') = Len(profiles) + 1 =>
                LET k == Len(profiles')
                IN  IF Truthy(profiles'[k].email)
                    THEN /\ profiles_with_email' = Append(profiles_with_email, k)
                         /\ profiles_without_email' = profiles_without_email
                    ELSE /\ profiles_without_email' = Append(profiles_without_email, k)
                         /\ profiles_with_email' = profiles_with_email
           /\ Len(profiles') = Len(profiles) =>
                /\ profiles_with_email' = profiles_with_email
                /\ profiles_without_email' = profiles_without_email
           /\ exported' # <<>> =>
                exported'[1] = [k \in 1..Len(profiles') |->
                               IF k <= Len(profiles_with_email')
                               THEN profiles'[profiles_with_email'[k]]
                               ELSE profiles'[profiles_without_email'[
                                        k - Len(profiles_with_email')]]]
         ]_vars

\* C5 witness: an exported list in which a profile whose email the resolver
\* found comes after a profile without an email.
C5_Witness ==
    /\ exported # <<>>
    /\ \E a, b \in DOMAIN exported[1] :
         /\ a < b
         /\ ~Truthy(exported[1][a].email)
         /\ Truthy(exported[1][b].email)

\* C6: in every step, a profile's non-empty email stays what it is, and an
\* email changes only in a resolver probe, from absent to a found non-empty
\* address.
C6_EmailSetOnce ==
    [][ /\ DOMAIN profiles \subseteq DOMAIN profiles'
        /\ \A k \in DOMAIN profiles :
             /\ Truthy(profiles[k].email) => profiles'[k].email = profiles[k].email
             /\ profiles'[k].email # profiles[k].email =>
                  /\ ~Truthy(profiles[k].email)
                  /\ IsAddress(profiles'[k].email)
                  /\ pc = "probe"
                  /\ profiles'[k].email = Last(probed')[2]
      ]_vars

\* C6 witness: the resolver has written an email into a profile fetched
\* without one, and the run went on to export.
C6_Witness ==
    /\ exported # <<>>
    /\ \E k \in Range(profiles_without_email) : Truthy(profiles[k].email)

\* C7 as stated: a probe that did not return an address, a transport
\* failure included, leaves the run going: nothing raised, and while
\* candidates remain the loop stands at the next one.
C7_ProbeFailureAdvances ==
    (probed # <<>> /\ ~IsAddress(Last(probed)[2])) =>
        /\ pc # "raised"
        /\ ~Truthy(profiles[ProbedRef].email)
        /\ Len(probed) < Len(domains) => (pc = "probe" /\ di = Len(probed) + 1)

\* C8: after a failed search (the error message was shown) the result set is
\* empty and no profile is fetched, no probe made and nothing exported; and
\* a handler that logged in but did not complete the search has shown the
\* error message instead of raising.
C8_SearchFailureLeavesNothing ==
    /\ "error" \in Range(st_out) =>
         /\ results = <<>>
         /\ profiles = <<>>
         /\ probed = <<>>
         /\ exported = <<>>
         /\ pc \in {"tab3", "done"}
    /\ (api # Unbound /\ "success" \notin Range(st_out)) => "error" \in Range(st_out)

\* C8 witness: the run ended after a failed search, with the error message
\* and then the "no search results" notice.
C8_Witness ==
    /\ pc = "done"
    /\ st_out = <<"error", "info">>
    /\ exported = <<>>

\* C9 as stated: absent profile fields never make a step raise, so a raised
\* run can only come from a probe whose request raised.
C9_AbsentFieldsNeverRaise ==
    pc = "raised" => (probed # <<>> /\ Last(probed)[2] = Raised)

\* C10: a probe is made only with a non-empty API key and for a profile
\* that has no email and is not in the has-email list; and no step changes
\* a field of a profile of the has-email list, or of any profile when the
\* API key is empty.
C10_ProbesGated ==
    [][ /\ (probed' # probed /\ probed' # <<>>) =>
             LET ref == Last(probed')[1].profile
             IN  /\ hunter_api_key # ""
                 /\ ref \in DOMAIN profiles
                 /\ ~Truthy(profiles[ref].email)
                 /\ ref \notin Range(profiles_with_email)
        /\ \A k \in DOMAIN profiles :
             (k \in Range(profiles_with_email) \/ hunter_api_key = "") =>
                 (k \in DOMAIN profiles' /\ profiles'[k] = profiles[k])
      ]_vars

\* C10 witness: a run with an empty API key exported profiles of both lists
\* and made no probe.
C10_Witness ==
    /\ exported # <<>>
    /\ hunter_api_key = ""
    /\ profiles_with_email # <<>>
    /\ profiles_without_email # <<>>
    /\ probed = <<>>

====
